---- MODULE Spec2Model ----
(***************************************************************************)
(* A model of FAISSVectorStore (src/app/vector_store.py): the in-memory    *)
(* flat L2 index, the metadata mapping and next_id, the two files the      *)
(* store persists to, the statements of add as separate steps of a calling *)
(* thread, failing file writes, and process crash / restart.               *)
(***************************************************************************)
EXTENDS Integers, Sequences, FiniteSets, TLC

(***************************************************************************)
(* Bounds of the model.                                                    *)
(***************************************************************************)
Dim == 2
MaxVectors == 3
MaxFaults == 1
MaxRestarts == 1
MaxVectorsRT == 11

Threads == {1, 2}
Caller == {1}

(***************************************************************************)
(* Inputs: embeddings are sequences of integers, metadata arguments are    *)
(* the (text, audio_path, chunks) triples passed to add.                   *)
(***************************************************************************)
Axis(d, i, c) == [j \in 1..d |-> IF j = i THEN c ELSE 0]

GoodEmbeddings == {Axis(Dim, 1, 2), Axis(Dim, Dim, 3)}
BadEmbeddings == {Axis(Dim + 1, 1, 1)}
Embeddings == GoodEmbeddings \cup BadEmbeddings

Dims == {Dim, Dim + 1}

Segment == [start |-> 0, end |-> 1, text |-> "s"]

ArgsA == [text |-> "a", audio_path |-> "a.wav", chunks |-> [none |-> TRUE, list |-> <<>>]]
ArgsB == [text |-> "b", audio_path |-> "b.wav", chunks |-> [none |-> FALSE, list |-> <<Segment>>]]
AddArgs == {ArgsA, ArgsB}

\* the calls of add made in the runs with failing writes and restarts
AddInputs == {<<Axis(Dim, 1, 2), ArgsA>>, <<Axis(Dim, Dim, 3), ArgsB>>, <<Axis(Dim + 1, 1, 1), ArgsA>>}

\* the queries made in those runs
Queries == {Axis(Dim, 1, 2), Axis(Dim + 1, 1, 1)}

NoArgs == [text |-> "", audio_path |-> "", chunks |-> [none |-> TRUE, list |-> <<>>]]

(***************************************************************************)
(* faiss.normalize_L2: divide by the Euclidean norm, a zero vector is left *)
(* as it is.  The inputs of the model have integer norms.                  *)
(***************************************************************************)
RECURSIVE SumSq(_)
SumSq(v) == IF Len(v) = 0 THEN 0 ELSE v[Len(v)] * v[Len(v)] + SumSq(SubSeq(v, 1, Len(v) - 1))

ISqrt(n) == CHOOSE r \in 0..n : r * r <= n /\ (r + 1) * (r + 1) > n

NormalizeL2(v) ==
    LET n == ISqrt(SumSq(v))
    IN IF n = 0 THEN v ELSE [i \in 1..Len(v) |-> v[i] \div n]

(***************************************************************************)
(* The flat index: its dimension d and its vectors; the id of a vector is  *)
(* its position, counted from 0.                                           *)
(***************************************************************************)
IndexFlatL2(d) == [d |-> d, vecs |-> <<>>]

ntotal(idx) == Len(idx.vecs)

\* a faulty insertion at the front, which moves every stored vector to the next id
IndexAddFront(idx, v) == [idx EXCEPT !.vecs = <<v>> \o @]

IndexAdd(idx, v) == [idx EXCEPT !.vecs = Append(@, v)]

\* a faulty check that refuses v after it was copied into the index
IndexAddRefusedLate(idx, v) == [idx EXCEPT !.vecs = Append(@, v)]

\* the index after index.add refused v: the length assertion comes first
IndexAddRefused(idx, v) == idx

(***************************************************************************)
(* The metadata mapping of the store: a function from integer ids.         *)
(***************************************************************************)
EmptyMetadata == <<>>

ChunksOrEmpty(c) == IF c.none \/ c.list = <<>> THEN <<>> ELSE c.list

MakeRecord(a) == [text |-> a.text, audio_path |-> a.audio_path, chunks |-> ChunksOrEmpty(a.chunks)]

PutMetadata(md, id, r) == [i \in (DOMAIN md) \cup {id} |-> IF i = id THEN r ELSE md[i]]

\* a faulty increment that skips an id
IncrNextIdSkips(n) == n + 2

IncrNextId(n) == n + 1

(***************************************************************************)
(* json.dump writes the integer keys of the mapping as decimal strings,    *)
(* _load_metadata parses them back with int().  A string is modelled as    *)
(* the sequence of its characters.                                         *)
(***************************************************************************)
Digits == <<"0", "1", "2", "3", "4", "5", "6", "7", "8", "9">>

DigitVal(c) == (CHOOSE i \in 1..10 : Digits[i] = c) - 1

RECURSIVE IntToStr(_)
IntToStr(n) == IF n < 10 THEN <<Digits[n + 1]>> ELSE Append(IntToStr(n \div 10), Digits[(n % 10) + 1])

\* a faulty parse that reads the last digit only
StrToIntLastDigit(s) == IF Len(s) = 0 THEN 0 ELSE DigitVal(s[Len(s)])

RECURSIVE StrToInt(_)
StrToInt(s) == IF Len(s) = 0 THEN 0 ELSE StrToInt(SubSeq(s, 1, Len(s) - 1)) * 10 + DigitVal(s[Len(s)])

(***************************************************************************)
(* The two files.  st is "absent", "corrupt" (a torn, unparsable file) or  *)
(* "ok".                                                                   *)
(***************************************************************************)
NoIndexFile == [st |-> "absent", d |-> 0, vecs |-> <<>>]
CorruptIndexFile == [st |-> "corrupt", d |-> 0, vecs |-> <<>>]

\* a faulty write that leaves the newest vector out of the file
WriteIndexStale(idx) == [st |-> "ok", d |-> idx.d, vecs |-> SubSeq(idx.vecs, 1, Len(idx.vecs) - 1)]

WriteIndex(idx) == [st |-> "ok", d |-> idx.d, vecs |-> idx.vecs]
ReadIndex(f) == [d |-> f.d, vecs |-> f.vecs]

NoMetaFile == [st |-> "absent", next_id |-> 0, metadata |-> <<>>]
CorruptMetaFile == [st |-> "corrupt", next_id |-> 0, metadata |-> <<>>]

\* a faulty dump that writes the newest record only
DumpMetadataNewest(n, md) ==
    [st |-> "ok", next_id |-> n,
     metadata |-> [k \in {IntToStr(i) : i \in (DOMAIN md) \cap {n - 1}} |->
                      md[CHOOSE i \in DOMAIN md : IntToStr(i) = k]]]

DumpMetadata(n, md) ==
    [st |-> "ok", next_id |-> n,
     metadata |-> [k \in {IntToStr(i) : i \in DOMAIN md} |->
                      md[CHOOSE i \in DOMAIN md : IntToStr(i) = k]]]

LoadMetadata(f) ==
    [next_id |-> f.next_id,
     metadata |-> [i \in {StrToInt(k) : k \in DOMAIN f.metadata} |->
                      f.metadata[CHOOSE k \in DOMAIN f.metadata : StrToInt(k) = i]]]

(***************************************************************************)
(* State.                                                                  *)
(***************************************************************************)
VARIABLES
    proc,       \* "up": a store object exists in a running process; "down": none
    boot,       \* outcome of the last construction: "ok", "raised", or "run" once used
    dimension,  \* self.dimension
    index,      \* self.index
    metadata,   \* self.metadata
    next_id,    \* self.next_id
    indexFile,  \* the file at index_path
    metaFile,   \* the file at metadata_path
    pc,         \* per thread: the statement of add it is at, or "idle"
    emb,        \* per thread: the embedding argument of the add in flight
    args,       \* per thread: the text, audio_path, chunks arguments
    vid,        \* per thread: the local vector_id
    n0,         \* per thread: index.ntotal when the add in flight started
    result,     \* per thread: outcome of its last completed call
    log,        \* history: the successful adds, in order of return
    intact,     \* history: no add failed or was cut off after it appended
    snap,       \* history: the in-memory state when the process last went down
    faults,     \* number of failed file writes so far
    restarts    \* number of process stops so far

mem == <<dimension, index, metadata, next_id>>
disk == <<indexFile, metaFile>>
locals == <<pc, emb, args, vid, n0>>
hist == <<log, intact, snap>>
vars == <<proc, boot, dimension, index, metadata, next_id, indexFile, metaFile,
          pc, emb, args, vid, n0, result, log, intact, snap, faults, restarts>>

\* op, query and k name the call; array is the caller's embedding array as the
\* call left it (reshape gives a view and faiss.normalize_L2 works in place)
\* status and detail are those of the HTTP response when the call is a request
\* that the web service answered without calling the store
NoResult == [kind |-> "none", id |-> -1, exc |-> "", stage |-> "", items |-> <<>>,
             total |-> 0, dimension |-> 0, inflight |-> {},
             op |-> "", array |-> <<>>, query |-> <<>>, k |-> 0,
             status |-> 0, detail |-> [prefix |-> 0, text |-> ""]]
Returned(id) == [NoResult EXCEPT !.kind = "return", !.id = id]

\* a faulty handling that swallows the exception and returns
RaisedSwallowed(exc, stage) == [NoResult EXCEPT !.kind = "return", !.exc = exc, !.stage = stage]

Raised(exc, stage) == [NoResult EXCEPT !.kind = "raise", !.exc = exc, !.stage = stage]

NoMemory == [dimension |-> 0, index |-> IndexFlatL2(0), metadata |-> EmptyMetadata, next_id |-> 0]
Memory == [dimension |-> dimension, index |-> index, metadata |-> metadata, next_id |-> next_id]

Idle == [t \in Threads |-> "idle"]
AllIdle == \A t \in Threads : pc[t] = "idle"

Init ==
    /\ proc = "up"
    /\ boot = "ok"
    /\ dimension = Dim
    /\ index = IndexFlatL2(Dim)
    /\ metadata = EmptyMetadata
    /\ next_id = 0
    /\ indexFile = NoIndexFile
    /\ metaFile = DumpMetadata(0, EmptyMetadata)
    /\ pc = Idle
    /\ emb = [t \in Threads |-> <<>>]
    /\ args = [t \in Threads |-> NoArgs]
    /\ vid = [t \in Threads |-> 0]
    /\ n0 = [t \in Threads |-> 0]
    /\ result = [t \in Threads |-> NoResult]
    /\ log = <<>>
    /\ intact = TRUE
    /\ snap = NoMemory
    /\ faults = 0
    /\ restarts = 0

(***************************************************************************)
(* FAISSVectorStore.__init__.  With no index file a new index is made and  *)
(* the (empty) metadata is written; with an index file the index is read   *)
(* and the metadata file, when there is one, is parsed.                    *)
(***************************************************************************)
ConstructNew(dim) ==
    /\ proc = "down"
    /\ indexFile.st = "absent"
    /\ dimension' = dim
    /\ index' = IndexFlatL2(dim)
    /\ metadata' = EmptyMetadata
    /\ next_id' = 0
    /\ metaFile' = DumpMetadata(0, EmptyMetadata)
    /\ proc' = "up"
    /\ boot' = "ok"
    /\ UNCHANGED <<indexFile, locals, result, hist, faults, restarts>>

ConstructNewFails(dim) ==
    /\ proc = "down"
    /\ indexFile.st = "absent"
    /\ faults < MaxFaults
    /\ \E f \in {metaFile, CorruptMetaFile} : metaFile' = f
    /\ faults' = faults + 1
    /\ boot' = "raised"
    /\ UNCHANGED <<proc, mem, indexFile, locals, result, hist, restarts>>

ConstructLoad(dim) ==
    /\ proc = "down"
    /\ indexFile.st = "ok"
    /\ metaFile.st # "corrupt"
    /\ dimension' = dim
    /\ index' = ReadIndex(indexFile)
    /\ IF metaFile.st = "ok"
       THEN /\ next_id' = LoadMetadata(metaFile).next_id
            /\ metadata' = LoadMetadata(metaFile).metadata
       ELSE /\ next_id' = 0
            /\ metadata' = EmptyMetadata
    /\ proc' = "up"
    /\ boot' = "ok"
    /\ UNCHANGED <<disk, locals, result, hist, faults, restarts>>

ConstructLoadFails(dim) ==
    /\ proc = "down"
    /\ \/ indexFile.st = "corrupt"
       \/ indexFile.st = "ok" /\ metaFile.st = "corrupt"
    /\ boot' = "raised"
    /\ UNCHANGED <<proc, mem, disk, locals, result, hist, faults, restarts>>

(***************************************************************************)
(* The process stops (exit or crash): the store object and the calls in    *)
(* flight are gone, the files stay.                                        *)
(***************************************************************************)
Crash ==
    /\ proc = "up"
    /\ restarts < MaxRestarts
    /\ proc' = "down"
    /\ boot' = "down"
    /\ snap' = Memory
    /\ intact' = (intact /\ AllIdle)
    /\ dimension' = NoMemory.dimension
    /\ index' = NoMemory.index
    /\ metadata' = NoMemory.metadata
    /\ next_id' = NoMemory.next_id
    /\ pc' = Idle
    /\ emb' = [t \in Threads |-> <<>>]
    /\ args' = [t \in Threads |-> NoArgs]
    /\ vid' = [t \in Threads |-> 0]
    /\ n0' = [t \in Threads |-> 0]
    /\ result' = [t \in Threads |-> NoResult]
    /\ restarts' = restarts + 1
    /\ UNCHANGED <<disk, log, faults>>

(***************************************************************************)
(* FAISSVectorStore.add, statement by statement.                           *)
(***************************************************************************)
\* lines 51-59: reshape, normalize, index.add; faiss rejects a row whose
\* length is not the dimension of the index
AddCall(t, e, a) ==
    /\ proc = "up"
    /\ pc[t] = "idle"
    /\ Len(e) = index.d
    /\ index' = IndexAdd(index, NormalizeL2(e))
    /\ pc' = [pc EXCEPT ![t] = "readid"]
    /\ emb' = [emb EXCEPT ![t] = e]
    /\ args' = [args EXCEPT ![t] = a]
    /\ n0' = [n0 EXCEPT ![t] = ntotal(index)]
    /\ result' = [result EXCEPT ![t] = [NoResult EXCEPT !.kind = "pending", !.op = "add",
                                                        !.array = NormalizeL2(e)]]
    /\ boot' = "run"
    /\ snap' = NoMemory
    /\ UNCHANGED <<proc, dimension, metadata, next_id, disk, vid, log, intact, faults, restarts>>

AddCallRejected(t, e, a) ==
    /\ proc = "up"
    /\ pc[t] = "idle"
    /\ Len(e) # index.d
    /\ index' = IndexAddRefused(index, NormalizeL2(e))
    /\ result' = [result EXCEPT ![t] = [Raised("AssertionError", "index.add") EXCEPT
                                            !.op = "add", !.array = NormalizeL2(e)]]
    /\ boot' = "run"
    /\ snap' = NoMemory
    /\ UNCHANGED <<proc, dimension, metadata, next_id, disk, locals, log, intact, faults, restarts>>

\* line 62
AddReadId(t) ==
    /\ proc = "up"
    /\ pc[t] = "readid"
    /\ vid' = [vid EXCEPT ![t] = next_id]
    /\ pc' = [pc EXCEPT ![t] = "put"]
    /\ UNCHANGED <<proc, boot, mem, disk, emb, args, n0, result, hist, faults, restarts>>

\* lines 63-67
AddPut(t) ==
    /\ proc = "up"
    /\ pc[t] = "put"
    /\ metadata' = PutMetadata(metadata, vid[t], MakeRecord(args[t]))
    /\ pc' = [pc EXCEPT ![t] = "incr"]
    /\ UNCHANGED <<proc, boot, dimension, index, next_id, disk, emb, args, vid, n0, result,
                   hist, faults, restarts>>

\* line 68
AddIncr(t) ==
    /\ proc = "up"
    /\ pc[t] = "incr"
    /\ next_id' = IncrNextId(next_id)
    /\ pc' = [pc EXCEPT ![t] = "save_index"]
    /\ UNCHANGED <<proc, boot, dimension, index, metadata, disk, emb, args, vid, n0, result,
                   hist, faults, restarts>>

\* line 71
AddSaveIndex(t) ==
    /\ proc = "up"
    /\ pc[t] = "save_index"
    /\ indexFile' = WriteIndex(index)
    /\ pc' = [pc EXCEPT ![t] = "save_metadata"]
    /\ UNCHANGED <<proc, boot, mem, metaFile, emb, args, vid, n0, result, hist, faults, restarts>>

\* line 71, faiss.write_index raises: the file is as before or torn
AddSaveIndexFails(t) ==
    /\ proc = "up"
    /\ pc[t] = "save_index"
    /\ faults < MaxFaults
    /\ \E f \in {indexFile, CorruptIndexFile} : indexFile' = f
    /\ pc' = [pc EXCEPT ![t] = "idle"]
    /\ result' = [result EXCEPT ![t] = [Raised("RuntimeError", "_save_index") EXCEPT
                                            !.op = "add", !.array = result[t].array]]
    /\ intact' = FALSE
    /\ faults' = faults + 1
    /\ UNCHANGED <<proc, boot, mem, metaFile, emb, args, vid, n0, log, snap, restarts>>

\* lines 72-74
AddSaveMetadata(t) ==
    /\ proc = "up"
    /\ pc[t] = "save_metadata"
    /\ metaFile' = DumpMetadata(next_id, metadata)
    /\ pc' = [pc EXCEPT ![t] = "idle"]
    /\ result' = [result EXCEPT ![t] = [Returned(vid[t]) EXCEPT
                                            !.op = "add", !.array = result[t].array]]
    /\ log' = Append(log, [id |-> vid[t], emb |-> emb[t], args |-> args[t]])
    /\ UNCHANGED <<proc, boot, mem, indexFile, emb, args, vid, n0, intact, snap, faults, restarts>>

\* line 72, open or json.dump raises: the file is as before or truncated
AddSaveMetadataFails(t) ==
    /\ proc = "up"
    /\ pc[t] = "save_metadata"
    /\ faults < MaxFaults
    /\ \E f \in {metaFile, CorruptMetaFile} : metaFile' = f
    /\ pc' = [pc EXCEPT ![t] = "idle"]
    /\ result' = [result EXCEPT ![t] = [Raised("OSError", "_save_metadata") EXCEPT
                                            !.op = "add", !.array = result[t].array]]
    /\ intact' = FALSE
    /\ faults' = faults + 1
    /\ UNCHANGED <<proc, boot, mem, indexFile, emb, args, vid, n0, log, snap, restarts>>

(***************************************************************************)
(* FAISSVectorStore.search.  IndexFlatL2.search returns the k stored       *)
(* vectors of smallest squared Euclidean distance in ascending order of    *)
(* distance; the order among vectors at the same distance is not fixed by  *)
(* faiss, so every order is a possible outcome.                            *)
(***************************************************************************)
\* a faulty clamp that is one too low
MinOneLess(a, b) == IF a <= b THEN a ELSE b - 1

Min(a, b) == IF a <= b THEN a ELSE b

Dist(a, b) == SumSq([i \in 1..Len(a) |-> a[i] - b[i]])

Ks == {-1, 0, 1, 2, MaxVectors + 1}

\* a faulty selection that takes the farthest vectors first
RECURSIVE RankingsOfFarthest(_, _, _)
RankingsOfFarthest(dq, rem, k) ==
    IF k = 0 \/ rem = {}
    THEN {<<>>}
    ELSE LET farthest == {i \in rem : \A j \in rem : dq[i] >= dq[j]}
         IN UNION {{<<i>> \o s : s \in RankingsOfFarthest(dq, rem \ {i}, k - 1)} : i \in farthest}

\* the sequences of the k nearest ids of rem in ascending order of distance,
\* dq[i] being the distance of the vector with id i
RECURSIVE RankingsOf(_, _, _)
RankingsOf(dq, rem, k) ==
    IF k = 0 \/ rem = {}
    THEN {<<>>}
    ELSE LET nearest == {i \in rem : \A j \in rem : dq[i] <= dq[j]}
         IN UNION {{<<i>> \o s : s \in RankingsOf(dq, rem \ {i}, k - 1)} : i \in nearest}

\* the possible id sequences returned by index.search(q, k)
Rankings(idx, q, k) ==
    LET ids == 0..(ntotal(idx) - 1)
    IN RankingsOf([i \in ids |-> Dist(idx.vecs[i + 1], q)], ids, k)

\* lines 107-115: metadata.get(id, {}) and the .get defaults
ResultItem(idx, md, q, id) ==
    LET dist == Dist(idx.vecs[id + 1], q)
        has == id \in DOMAIN md
    IN [id |-> id,
        distance |-> dist,
        similarity_score |-> [num |-> 1, den |-> 1 + dist],
        text |-> IF has THEN md[id].text ELSE "",
        audio_path |-> IF has THEN md[id].audio_path ELSE "",
        chunks |-> IF has THEN md[id].chunks ELSE <<>>]

\* a faulty lookup, self.metadata[id] in place of self.metadata.get(id, {}):
\* an id with no record raises KeyError
SearchOutcomesKeyError(idx, md, query, k) ==
    LET q == NormalizeL2(query)
        kk == Min(k, ntotal(idx))
    IN IF kk = 0
       THEN {[NoResult EXCEPT !.kind = "results"]}
       ELSE IF Len(q) # idx.d \/ kk < 0
            THEN {Raised("AssertionError", "index.search")}
            ELSE {IF \E i \in 1..kk : s[i] \notin DOMAIN md
                  THEN Raised("KeyError", "metadata")
                  ELSE [NoResult EXCEPT !.kind = "results",
                                        !.items = [i \in 1..kk |-> ResultItem(idx, md, q, s[i])]]
                  : s \in Rankings(idx, q, kk)}

\* lines 87-117: the outcomes of search(query_embedding, k)
SearchOutcomes(idx, md, query, k) ==
    LET q == NormalizeL2(query)
        kk == Min(k, ntotal(idx))
    IN IF kk = 0
       THEN {[NoResult EXCEPT !.kind = "results"]}
       ELSE IF Len(q) # idx.d \/ kk < 0
            THEN {Raised("AssertionError", "index.search")}
            ELSE {[NoResult EXCEPT !.kind = "results",
                                   !.items = [i \in 1..kk |-> ResultItem(idx, md, q, s[i])]]
                  : s \in Rankings(idx, q, kk)}

\* the other threads that have appended a vector whose record or next_id is not stored yet
InFlight(t) == {u \in Threads \ {t} : pc[u] \in {"readid", "put", "incr"}}

\* a faulty lookup, self.metadata.setdefault(id, {}), which stores an empty
\* record for every looked-up id that has none
MetadataAfterSetdefault(md, ids) ==
    [i \in (DOMAIN md) \cup ids |->
        IF i \in DOMAIN md THEN md[i] ELSE [text |-> "", audio_path |-> "", chunks |-> <<>>]]

\* line 107: the mapping after self.metadata.get(id, {}) for the ids looked up
MetadataAfterGet(md, ids) == md

Search(t, query, k) ==
    /\ proc = "up"
    /\ pc[t] = "idle"
    /\ \E r \in SearchOutcomes(index, metadata, query, k) :
          /\ result' = [result EXCEPT ![t] = [r EXCEPT !.inflight = InFlight(t),
                                                       !.op = "search",
                                                       !.array = NormalizeL2(query),
                                                       !.query = query,
                                                       !.k = k]]
          /\ metadata' = MetadataAfterGet(metadata, {r.items[i].id : i \in 1..Len(r.items)})
    /\ boot' = "run"
    /\ snap' = NoMemory
    /\ UNCHANGED <<proc, dimension, index, next_id, disk, locals, log, intact, faults, restarts>>

(***************************************************************************)
(* FAISSVectorStore.get_stats.                                             *)
(***************************************************************************)
GetStats(t) ==
    /\ proc = "up"
    /\ pc[t] = "idle"
    /\ result' = [result EXCEPT ![t] = [NoResult EXCEPT !.kind = "stats",
                                                        !.op = "stats",
                                                        !.total = ntotal(index),
                                                        !.dimension = dimension]]
    /\ boot' = "run"
    /\ snap' = NoMemory
    /\ UNCHANGED <<proc, mem, disk, locals, log, intact, faults, restarts>>

(***************************************************************************)
(* The web service (src/app/main.py).  Every handler is a coroutine run by *)
(* one event loop: the loop turns to another coroutine only where the      *)
(* running one awaits.  SuspensionPoints are the statements of the store   *)
(* calls at which a handler awaits: the handlers contain no await.         *)
(***************************************************************************)
\* handlers that await around the file writes
SuspensionPointsAtSave == {"save_index", "save_metadata"}

SuspensionPoints == {}

\* the event loop can run the coroutine of request t
LoopRuns(t) == \A u \in Threads \ {t} : pc[u] = "idle" \/ pc[u] \in SuspensionPoints

\* a detail text, with the status code str() puts in front of it (0: none)
Detail(prefix, text) == [prefix |-> prefix, text |-> text]

HTTPException(status, detail) == [status |-> status, detail |-> detail]

\* the requests each handler rejects, with the detail of the HTTPException
\* it raises with status 400 inside its try block
Rejections ==
    {[handler |-> "/upload-audio", detail |-> "Unsupported file type"],
     [handler |-> "/sound2scene", detail |-> "Unsupported file type"],
     [handler |-> "/search", detail |-> "Query cannot be empty"]}

\* str(e) of an HTTPException: "<status>: <detail>", or empty in the
\* releases of the framework that do not define it
StrOfException(e) == {Detail(e.status, e.detail.text), Detail(0, "")}

\* the 'except Exception' clause that closes the try block of each handler:
\* HTTPException is an Exception, so it is caught as well
ExceptClause(e) == {HTTPException(500, d) : d \in StrOfException(e)}

RequestRejected(t, rej) ==
    /\ proc = "up"
    /\ pc[t] = "idle"
    /\ \E resp \in ExceptClause(HTTPException(400, Detail(0, rej.detail))) :
          result' = [result EXCEPT ![t] = [NoResult EXCEPT !.kind = "http",
                                                           !.op = rej.handler,
                                                           !.exc = rej.detail,
                                                           !.status = resp.status,
                                                           !.detail = resp.detail]]
    /\ boot' = "run"
    /\ snap' = NoMemory
    /\ UNCHANGED <<proc, mem, disk, locals, log, intact, faults, restarts>>

(***************************************************************************)
(* Spec: one caller at a time (the way the web service calls the store),   *)
(* with failing writes and restarts.                                       *)
(***************************************************************************)
Next ==
    \/ \E d \in Dims : ConstructNew(d)
    \/ \E d \in Dims : ConstructNewFails(d)
    \/ \E d \in Dims : ConstructLoad(d)
    \/ \E d \in Dims : ConstructLoadFails(d)
    \/ Crash
    \/ \E t \in Caller, p \in AddInputs :
          ntotal(index) < MaxVectors /\ AddCall(t, p[1], p[2])
    \/ \E t \in Caller, p \in AddInputs : AddCallRejected(t, p[1], p[2])
    \/ \E t \in Caller : AddReadId(t)
    \/ \E t \in Caller : AddPut(t)
    \/ \E t \in Caller : AddIncr(t)
    \/ \E t \in Caller : AddSaveIndex(t)
    \/ \E t \in Caller : AddSaveIndexFails(t)
    \/ \E t \in Caller : AddSaveMetadata(t)
    \/ \E t \in Caller : AddSaveMetadataFails(t)
    \/ \E t \in Caller, q \in Queries : Search(t, q, 1)
    \/ \E t \in Caller : GetStats(t)

Spec == Init /\ [][Next]_vars

(***************************************************************************)
(* SpecConc: two threads call add and search on one store object with no   *)
(* restriction on how their statements interleave.                         *)
(***************************************************************************)
ThreadInput(t) == IF t = 1 THEN <<Axis(Dim, 1, 2), ArgsA>> ELSE <<Axis(Dim, Dim, 3), ArgsB>>

NextConc ==
    \/ \E t \in Threads :
          ntotal(index) < MaxVectors /\ AddCall(t, ThreadInput(t)[1], ThreadInput(t)[2])
    \/ \E t \in Threads : AddReadId(t)
    \/ \E t \in Threads : AddPut(t)
    \/ \E t \in Threads : AddIncr(t)
    \/ \E t \in Threads : AddSaveIndex(t)
    \/ \E t \in Threads : AddSaveMetadata(t)
    \/ \E t \in Threads : Search(t, Axis(Dim, 1, 1), MaxVectors)

SpecConc == Init /\ [][NextConc]_vars

(***************************************************************************)
(* SpecRT: a long run of successful adds with restarts in between, so that *)
(* ids of more than one digit are written and parsed.                      *)
(***************************************************************************)
NextRT ==
    \/ ConstructNew(Dim)
    \/ ConstructLoad(Dim)
    \/ AllIdle /\ Crash
    \/ \E t \in Caller, p \in AddInputs :
          ntotal(index) < MaxVectorsRT /\ AddCall(t, p[1], p[2])
    \/ \E t \in Caller : AddReadId(t)
    \/ \E t \in Caller : AddPut(t)
    \/ \E t \in Caller : AddIncr(t)
    \/ \E t \in Caller : AddSaveIndex(t)
    \/ \E t \in Caller : AddSaveMetadata(t)

SpecRT == Init /\ [][NextRT]_vars

(***************************************************************************)
(* SpecWeb: two requests in the web service, each calling the store from   *)
(* its handler or being rejected by it.                                    *)
(***************************************************************************)
NextWeb ==
    \/ \E t \in Threads :
          /\ LoopRuns(t)
          /\ ntotal(index) < MaxVectors
          /\ AddCall(t, ThreadInput(t)[1], ThreadInput(t)[2])
    \/ \E t \in Threads : LoopRuns(t) /\ AddReadId(t)
    \/ \E t \in Threads : LoopRuns(t) /\ AddPut(t)
    \/ \E t \in Threads : LoopRuns(t) /\ AddIncr(t)
    \/ \E t \in Threads : LoopRuns(t) /\ AddSaveIndex(t)
    \/ \E t \in Threads : LoopRuns(t) /\ AddSaveMetadata(t)
    \/ \E t \in Threads : LoopRuns(t) /\ Search(t, Axis(Dim, 1, 1), MaxVectors)
    \/ \E t \in Threads : LoopRuns(t) /\ GetStats(t)
    \/ \E t \in Threads, rej \in Rejections : LoopRuns(t) /\ RequestRejected(t, rej)

SpecWeb == Init /\ [][NextWeb]_vars

(***************************************************************************)
(* SpecSearch: searches with every kind of query and k, on stores built by *)
(* adds that complete or are cut off by a stop of the process (a stop      *)
(* between two calls is covered by Spec).                                  *)
(***************************************************************************)
SearchQueries == {Axis(Dim, 1, 2), Axis(Dim + 1, 1, 1)}

NextSearch ==
    \/ ConstructNew(Dim)
    \/ ConstructLoad(Dim)
    \/ ~AllIdle /\ Crash
    \/ \E t \in Caller, p \in AddInputs :
          ntotal(index) < MaxVectors /\ AddCall(t, p[1], p[2])
    \/ \E t \in Caller : AddReadId(t)
    \/ \E t \in Caller : AddPut(t)
    \/ \E t \in Caller : AddIncr(t)
    \/ \E t \in Caller : AddSaveIndex(t)
    \/ \E t \in Caller : AddSaveMetadata(t)
    \/ \E t \in Caller, q \in SearchQueries, k \in Ks : Search(t, q, k)

SpecSearch == Init /\ [][NextSearch]_vars


(***************************************************************************)
(* Properties.                                                             *)
(***************************************************************************)

\* C1: after every completed operation the keys of the metadata mapping are
\* exactly the ids 0 .. index.ntotal-1 held by the index.
C1_MetadataKeysAreIndexIds ==
    (proc = "up" /\ AllIdle) => DOMAIN metadata = 0..(ntotal(index) - 1)

\* C2: next_id equals index.ntotal whenever add starts, and an add that
\* returns gives the count the index held before the call, has stored one
\* vector at that position and left the count one higher.
C2_AddReturnsPreviousCount ==
    /\ (proc = "up" /\ AllIdle) => next_id = ntotal(index)
    /\ \A t \in Threads :
          result[t].kind = "return" =>
             /\ result[t].id = n0[t]
             /\ ntotal(index) = n0[t] + 1
             /\ index.vecs[result[t].id + 1] = NormalizeL2(emb[t])

\* C3: on a newly created store whose add calls all returned, the ids
\* returned are 0, 1, ..., n-1 in call order.
C3_FreshIdsInCallOrder ==
    intact => \A i \in 1..Len(log) : log[i].id = i - 1

C3_Witness ==
    intact /\ restarts = 0 /\ Len(log) = MaxVectors

\* C4: over any sequence of adds on one pair of files, failed adds and
\* restarts included, the ids of the successful adds are 0, 1, 2, ... with
\* no gap and no repeat.
C4_IdsConsecutiveDespiteFailures ==
    \A i \in 1..Len(log) : log[i].id = i - 1

\* C5: whenever add has returned an id, the index file holds every vector of
\* the in-memory index and the metadata file holds the in-memory next_id and
\* every in-memory record.
C5_FilesWrittenWhenAddReturns ==
    \A t \in Threads :
       result[t].kind = "return" =>
          /\ indexFile.st = "ok"
          /\ indexFile.d = index.d
          /\ indexFile.vecs = index.vecs
          /\ metaFile.st = "ok"
          /\ metaFile.next_id = next_id
          /\ result[t].id \in DOMAIN metadata
          /\ \A i \in DOMAIN metadata :
                /\ IntToStr(i) \in DOMAIN metaFile.metadata
                /\ metaFile.metadata[IntToStr(i)] = metadata[i]

C5_Witness ==
    /\ result[1].kind = "return"
    /\ result[1].id >= 1
    /\ metadata[result[1].id] = MakeRecord(ArgsB)

\* C6: after successful adds, a store constructed on the same two files has
\* the same vectors in id order, the same next_id and the same metadata
\* mapping with the same integer ids.
C6_ReloadRoundTrip ==
    (proc = "up" /\ boot = "ok" /\ restarts > 0) =>
       /\ index = snap.index
       /\ next_id = snap.next_id
       /\ metadata = snap.metadata

C6_Witness ==
    /\ proc = "up"
    /\ boot = "ok"
    /\ restarts > 0
    /\ 10 \in DOMAIN metadata
    /\ <<"1", "0">> \in DOMAIN metaFile.metadata
    /\ metadata[10] # metadata[0]

\* C7: two concurrent adds return different ids, each id's record is the one
\* its call supplied, and their file writes do not interleave.
C7_ConcurrentAddsSerialized ==
    /\ \A i, j \in 1..Len(log) : i # j => log[i].id # log[j].id
    /\ AllIdle => \A i \in 1..Len(log) :
                     /\ log[i].id \in DOMAIN metadata
                     /\ metadata[log[i].id] = MakeRecord(log[i].args)
    /\ ~ \E t, u \in Threads : t # u /\ pc[t] = "save_metadata" /\ pc[u] = "save_metadata"

\* C8: search never reads the tables while another add has appended its
\* vector but not yet stored the record and next_id.
C8_NoSearchDuringAdd ==
    \A t \in Threads : result[t].kind \in {"results", "raise"} => result[t].inflight = {}

\* C9: construction refuses to start when the files are inconsistent.
FilesConsistent ==
    \/ /\ indexFile.st = "absent"
       /\ metaFile.st = "ok" => DOMAIN metaFile.metadata = {}
    \/ /\ indexFile.st = "ok"
       /\ metaFile.st = "ok"
       /\ metaFile.next_id = Len(indexFile.vecs)
       /\ DOMAIN metaFile.metadata = {IntToStr(i) : i \in 0..(Len(indexFile.vecs) - 1)}

C9_RefusesInconsistentFiles ==
    (proc = "up" /\ boot = "ok") => FilesConsistent

\* C10: a metadata write that fails after the index write succeeded is
\* reported as a partial write naming the assigned id.
C10_PartialWriteReported ==
    \A t \in Threads :
       (result[t].kind = "raise" /\ result[t].stage = "_save_metadata") =>
          /\ result[t].exc = "PartialWriteError"
          /\ result[t].id = vid[t]

\* C11: an add whose embedding length differs from the store's dimension
\* fails at the dimension check and returns no id, and no vector of another
\* length is ever stored.
C11_WrongLengthAddRejected ==
    /\ \A t \in Threads :
          (result[t].op = "add" /\ Len(result[t].array) # dimension) =>
             (result[t].kind = "raise" /\ result[t].stage = "index.add")
    /\ proc = "up" => \A i \in 1..ntotal(index) : Len(index.vecs[i]) = dimension

\* C12: a search whose query length differs from the store's dimension fails
\* with the dimension error for every k and in every state, the empty store
\* included.
C12_WrongLengthSearchRejected ==
    \A t \in Threads :
       (result[t].op = "search" /\ Len(result[t].query) # dimension) =>
          (result[t].kind = "raise" /\ result[t].stage = "index.search")

\* C13: construction on an index file of another dimension fails; with no
\* index file it yields an empty index of the requested dimension.
C13_ConstructorChecksDimension ==
    (proc = "up" /\ boot = "ok") =>
       /\ indexFile.st = "ok" => (index.d = dimension /\ indexFile.d = dimension)
       /\ indexFile.st = "absent" => index = IndexFlatL2(dimension)

\* the arguments passed together with the embedding that was stored as v
ArgsOfVector(v) == (CHOOSE p \in AddInputs : NormalizeL2(p[1]) = v)[2]

\* C14: a search result that carries a stored record carries the text,
\* audio_path and chunks passed to the add that stored the vector of its id,
\* never those of another vector.
C14_ResultsCarryOwnMetadata ==
    \A t \in Threads :
       result[t].kind = "results" =>
          \A i \in 1..Len(result[t].items) :
             LET it == result[t].items[i]
             IN it.id \in DOMAIN metadata =>
                   [text |-> it.text, audio_path |-> it.audio_path, chunks |-> it.chunks]
                      = MakeRecord(ArgsOfVector(index.vecs[it.id + 1]))

\* the ids that successful adds returned for the embedding v
IdsReturnedFor(v) == {log[i].id : i \in {j \in 1..Len(log) : log[j].emb = v}}

\* the ids of the stored vectors equal to v
IdsHolding(v) == {i \in 0..(ntotal(index) - 1) : index.vecs[i + 1] = v}

\* C16: searching with k >= 1 for a vector that an earlier add stored returns
\* first the (lowest) id that add returned for it, at distance 0 and
\* similarity 1, with the text given to that add.  Stated for a vector that
\* the index holds once, so that no two stored vectors are at distance 0.
C16_SelfMatchFirst ==
    \A t \in Threads :
       (/\ result[t].op = "search"
        /\ result[t].k >= 1
        /\ IdsReturnedFor(result[t].query) # {}
        /\ Cardinality(IdsHolding(result[t].array)) = 1) =>
          /\ result[t].kind = "results"
          /\ Len(result[t].items) >= 1
          /\ LET first == result[t].items[1]
                 id == CHOOSE i \in IdsReturnedFor(result[t].query) :
                          \A j \in IdsReturnedFor(result[t].query) : i <= j
                 call == CHOOSE j \in 1..Len(log) : log[j].id = id /\ log[j].emb = result[t].query
             IN /\ first.id = id
                /\ first.distance = 0
                /\ first.similarity_score.num = first.similarity_score.den
                /\ first.text = log[call].args.text

\* C20: add and search leave the caller's embedding array as it was passed.
C20_CallerArrayUnchanged ==
    \A t \in Threads :
       /\ (result[t].op = "add" /\ result[t].kind \in {"pending", "return"}) =>
             result[t].array = emb[t]
       /\ result[t].op = "search" => result[t].array = result[t].query

\* the ids of the stored vectors that have no record in the metadata mapping
IdsWithoutRecord == {i \in 0..(ntotal(index) - 1) : i \notin DOMAIN metadata}

\* C15: when the index holds a vector whose id has no record, search does
\* not raise; the result for that id has text "", audio_path "" and chunks
\* [], and the results of the other ids carry their records.
C15_MissingRecordGivesDefaults ==
    \A t \in Threads :
       (/\ result[t].op = "search"
        /\ result[t].k >= 1
        /\ Len(result[t].query) = index.d
        /\ IdsWithoutRecord # {}) =>
          /\ result[t].kind = "results"
          /\ result[t].k >= ntotal(index) =>
                IdsWithoutRecord \subseteq {result[t].items[i].id : i \in 1..Len(result[t].items)}
          /\ \A i \in 1..Len(result[t].items) :
                LET it == result[t].items[i]
                IN IF it.id \in IdsWithoutRecord
                   THEN it.text = "" /\ it.audio_path = "" /\ it.chunks = <<>>
                   ELSE /\ it.text = metadata[it.id].text
                        /\ it.audio_path = metadata[it.id].audio_path
                        /\ it.chunks = metadata[it.id].chunks

C15_Witness ==
    /\ result[1].kind = "results"
    /\ Len(result[1].items) >= 2
    /\ \E i, j \in 1..Len(result[1].items) :
          /\ result[1].items[i].id \in IdsWithoutRecord
          /\ result[1].items[i].text = ""
          /\ result[1].items[j].id \in DOMAIN metadata
          /\ result[1].items[j].text # ""

\* C17: for a query of the dimension of the index and k >= 1, search returns
\* exactly min(k, total_count) results: total_count of them when k is larger,
\* and an empty list when the store holds no vector.
C17_ReturnsMinOfKAndCount ==
    \A t \in Threads :
       (/\ result[t].op = "search"
        /\ result[t].k >= 1
        /\ Len(result[t].query) = index.d) =>
          /\ result[t].kind = "results"
          /\ Len(result[t].items) = IF result[t].k <= ntotal(index)
                                    THEN result[t].k ELSE ntotal(index)

C17_Witness ==
    /\ result[1].kind = "results"
    /\ ntotal(index) >= 2
    /\ result[1].k > ntotal(index)
    /\ Len(result[1].items) = ntotal(index)

\* C18: the results are the k stored vectors nearest to the normalized query
\* by squared Euclidean distance, no stored vector outside the result being
\* strictly closer than one inside, listed in ascending order of distance.
C18_NearestInAscendingOrder ==
    \A t \in Threads :
       result[t].kind = "results" =>
          LET items == result[t].items
              q == NormalizeL2(result[t].query)
              inside == {items[i].id : i \in 1..Len(items)}
          IN /\ \A i \in 1..Len(items) :
                   /\ items[i].id \in 0..(ntotal(index) - 1)
                   /\ items[i].distance = Dist(index.vecs[items[i].id + 1], q)
             /\ \A i, j \in 1..Len(items) :
                   i < j => (items[i].id # items[j].id /\ items[i].distance <= items[j].distance)
             /\ \A o \in (0..(ntotal(index) - 1)) \ inside :
                   \A i \in 1..Len(items) : Dist(index.vecs[o + 1], q) >= items[i].distance

C18_Witness ==
    /\ result[1].kind = "results"
    /\ Len(result[1].items) = 2
    /\ ntotal(index) = 3
    /\ result[1].items[1].distance < result[1].items[2].distance
    /\ \E o \in 0..2 : /\ \A i \in 1..2 : result[1].items[i].id # o
                       /\ Dist(index.vecs[o + 1], NormalizeL2(result[1].query))
                             > result[1].items[1].distance

C21_WriteFailureLeavesStoreUsable ==
    \A t \in Threads :
       /\ result[t].stage \in {"_save_index", "_save_metadata"} =>
             /\ result[t].kind = "raise"
             /\ result[t].id = -1
             /\ proc = "up"
             /\ pc[t] = "idle"
       /\ (faults > 0 /\ restarts = 0) =>
             /\ result[t].kind = "return" =>
                   /\ result[t].id >= 0
                   /\ index.vecs[ntotal(index)] = NormalizeL2(emb[t])
                   /\ result[t].id \in DOMAIN metadata
                   /\ metadata[result[t].id].text = args[t].text
                   /\ indexFile.st = "ok" /\ indexFile.vecs = index.vecs
                   /\ metaFile.st = "ok" /\ metaFile.next_id = next_id
             /\ (result[t].op = "search" /\ Len(result[t].query) = index.d) =>
                   /\ result[t].kind = "results"
                   /\ Len(result[t].items) = IF ntotal(index) = 0 THEN 0 ELSE result[t].k

C21_Witness ==
    /\ faults > 0
    /\ restarts = 0
    /\ result[1].kind = "return"
    /\ Len(log) = 1
    /\ result[1].id = 1

\* C22: the total_vectors reported by get_stats is the number of vectors in
\* the index and the dimension it reports is the dimension of the vectors
\* the index holds.
C22_StatsReflectIndex ==
    \A t \in Threads :
       result[t].kind = "stats" =>
          /\ result[t].total = ntotal(index)
          /\ result[t].dimension = index.d
          /\ \A i \in 1..ntotal(index) : Len(index.vecs[i]) = result[t].dimension

\* the number of vectors the index file holds (none when missing or torn)
PersistedCount == IF indexFile.st = "ok" THEN Len(indexFile.vecs) ELSE 0

\* C23: at every instant the metadata file holds no record and no next_id
\* for an id the index file does not hold, and the index file is at most one
\* vector ahead: persisted next_id <= persisted count <= persisted next_id + 1.
C23_MetadataFileNeverAhead ==
    metaFile.st = "ok" =>
       /\ metaFile.next_id <= PersistedCount
       /\ PersistedCount <= metaFile.next_id + 1
       /\ \A k \in DOMAIN metaFile.metadata : StrToInt(k) < PersistedCount

\* C24: an add rejected for the length of its embedding leaves the index,
\* next_id, the metadata mapping, the index file and the metadata file as
\* they were.
C24_RejectedAddChangesNothing ==
    [][\A t \in Threads :
          (/\ result'[t] # result[t]
           /\ result'[t].op = "add"
           /\ result'[t].kind = "raise"
           /\ result'[t].stage = "index.add") =>
             /\ index' = index
             /\ next_id' = next_id
             /\ metadata' = metadata
             /\ indexFile' = indexFile
             /\ metaFile' = metaFile]_vars

C24_Witness ==
    /\ result[1].op = "add"
    /\ result[1].kind = "raise"
    /\ result[1].stage = "index.add"
    /\ ntotal(index) >= 1
    /\ next_id >= 1
    /\ indexFile.st = "ok"

\* the ids below next_id that no successful add returned
IdsOfFailedAdds == {f \in 0..(next_id - 1) : \A i \in 1..Len(log) : log[i].id # f}

\* C25: after adds that failed while writing a file, the next add on the
\* same store that returns leaves both files equal to the whole in-memory
\* state, the vectors and records of the failed adds included.
C25_NextAddPersistsFailedAdd ==
    \A t \in Threads :
       (faults > 0 /\ restarts = 0 /\ result[t].kind = "return") =>
          /\ Cardinality(IdsOfFailedAdds) = faults
          /\ indexFile = [st |-> "ok", d |-> index.d, vecs |-> index.vecs]
          /\ Len(indexFile.vecs) = next_id
          /\ metaFile.st = "ok"
          /\ metaFile.next_id = next_id
          /\ \A f \in 0..(next_id - 1) :
                /\ f \in DOMAIN metadata
                /\ IntToStr(f) \in DOMAIN metaFile.metadata
                /\ metaFile.metadata[IntToStr(f)] = metadata[f]

C25_Witness ==
    /\ faults > 0
    /\ restarts = 0
    /\ result[1].kind = "return"
    /\ IdsOfFailedAdds = {0}
    /\ Len(indexFile.vecs) = 2
    /\ <<"0">> \in DOMAIN metaFile.metadata

\* thread t takes a statement of add that does not raise
AddStepOf(t) ==
    /\ proc = "up" /\ proc' = "up"
    /\ \/ pc'[t] # pc[t] /\ pc'[t] # "idle"
       \/ pc[t] = "save_metadata" /\ result'[t].kind = "return"

\* C26: add changes and removes nothing that earlier adds stored: every
\* statement of an add that returns id n keeps the stored vectors at their
\* ids and the records of the ids below n as they were, in memory and in the
\* two files.
C26_AddKeepsEarlierEntries ==
    [][\A t \in Threads :
          AddStepOf(t) =>
             /\ Len(index'.vecs) >= Len(index.vecs)
             /\ \A i \in 1..Len(index.vecs) : index'.vecs[i] = index.vecs[i]
             /\ \A i \in DOMAIN metadata :
                   (pc[t] = "put" => i < vid[t]) =>
                      (i \in DOMAIN metadata' /\ metadata'[i] = metadata[i])
             /\ indexFile.st = "ok" =>
                   /\ indexFile'.st = "ok"
                   /\ Len(indexFile'.vecs) >= Len(indexFile.vecs)
                   /\ \A i \in 1..Len(indexFile.vecs) : indexFile'.vecs[i] = indexFile.vecs[i]
             /\ metaFile.st = "ok" =>
                   /\ metaFile'.st = "ok"
                   /\ \A k \in DOMAIN metaFile.metadata :
                         /\ k \in DOMAIN metaFile'.metadata
                         /\ metaFile'.metadata[k] = metaFile.metadata[k]]_vars

C26_Witness ==
    /\ restarts > 0
    /\ result[1].kind = "return"
    /\ result[1].id >= 1
    /\ 0 \in DOMAIN metadata
    /\ metadata[0] # metadata[result[1].id]
    /\ index.vecs[1] # index.vecs[result[1].id + 1]
    /\ <<"0">> \in DOMAIN metaFile.metadata

\* C27: search changes nothing in the store: whether it returns results,
\* an empty list or raises, the index, next_id, the metadata mapping and both
\* files are after the call what they were before it.
C27_SearchChangesNothing ==
    [][\A t \in Threads :
          (result'[t] # result[t] /\ result'[t].op = "search") =>
             /\ index' = index
             /\ next_id' = next_id
             /\ metadata' = metadata
             /\ dimension' = dimension
             /\ indexFile' = indexFile
             /\ metaFile' = metaFile]_vars

C27_Witness ==
    /\ result[1].op = "search"
    /\ result[1].kind = "results"
    /\ Len(result[1].items) >= 2
    /\ \E i \in 1..Len(result[1].items) : result[1].items[i].id \notin DOMAIN metadata
    /\ indexFile.st = "ok"

\* C28: for a query of the dimension of the index, search does not raise
\* for any integer k in any state of the store, and returns an empty list
\* when k <= 0.
C28_SearchTotalInK ==
    \A t \in Threads :
       (result[t].op = "search" /\ Len(result[t].query) = index.d) =>
          /\ result[t].kind = "results"
          /\ result[t].k <= 0 => result[t].items = <<>>

\* request t takes a step in the store or gets its answer
StepOf(t) == pc'[t] # pc[t] \/ result'[t] # result[t]

\* C29: in the web service the store operations of concurrent requests do
\* not interleave: whenever a handler touches the store no other handler is
\* inside a store call, so each add, search and get_stats runs from start to
\* end on its own.
C29_HandlersDoNotInterleave ==
    [][\A t \in Threads :
          StepOf(t) => \A u \in Threads \ {t} : pc[u] = "idle" /\ pc'[u] = "idle"]_vars

C29_Witness ==
    /\ result[1].kind = "return"
    /\ result[2].kind = "return"
    /\ result[1].id # result[2].id
    /\ Len(log) = MaxVectors
    /\ \A i \in 1..Len(log) : log[i].id = i - 1

\* C30: a request the web service rejects (unsupported file extension on
\* /upload-audio or /sound2scene, empty query on /search) is answered with
\* status 400 and the detail of the rejection, and the store is not touched.
C30_RejectedRequestGets400 ==
    \A t \in Threads :
       result[t].kind = "http" =>
          /\ result[t].status = 400
          /\ result[t].detail = [prefix |-> 0, text |-> result[t].exc]
          /\ result[t].exc \in {"Unsupported file type", "Query cannot be empty"}

====
